---------------------------- MODULE Spec2Model ----------------------------
(***************************************************************************)
(* A model of the flash-news backend (src/api.py, src/wsgi.py,             *)
(* src/gunicorn_config.py): the article store, the generation runs of the  *)
(* scheduler thread, of the start-up thread and of POST                    *)
(* /api/generate-article, and the pure text functions parse_article,       *)
(* extract_topics and find_similar_articles.                               *)
(*                                                                         *)
(* A text is a sequence of characters, each character a one-character      *)
(* string, so that the string operations of the code (split, strip,        *)
(* regular-expression searches) are computed rather than assumed.          *)
(***************************************************************************)
EXTENDS Integers, Sequences, FiniteSets, TLC

(***************************************************************************)
(* Characters and the str / re primitives the code uses.                   *)
(***************************************************************************)
LowerSeq == <<"a","b","c","d","e","f","g","h","i","j","k","l","m","n","o","p","q","r","s","t","u","v","w","x","y","z">>
UpperSeq == <<"A","B","C","D","E","F","G","H","I","J","K","L","M","N","O","P","Q","R","S","T","U","V","W","X","Y","Z">>
DigitSeq == <<"0","1","2","3","4","5","6","7","8","9">>

Range(s) == {s[i] : i \in DOMAIN s}
LowerLetters == Range(LowerSeq)
UpperLetters == Range(UpperSeq)
DigitChars == Range(DigitSeq)
\* \w of a Python regular expression, on ASCII text
WordChars == LowerLetters \cup UpperLetters \cup DigitChars \cup {"_"}
\* \s of a Python regular expression and the characters str.strip() removes
Whitespace == {" ", "\n", "\t", "\r"}
NL == "\n"

Min(S) == CHOOSE x \in S : \A y \in S : x <= y
Max(S) == CHOOSE x \in S : \A y \in S : x >= y

\* str.lower() of one character
LowerChar(c) ==
    IF c \in UpperLetters
    THEN LowerSeq[CHOOSE i \in DOMAIN UpperSeq : UpperSeq[i] = c]
    ELSE c

\* str.lower()
Lower(s) == [i \in DOMAIN s |-> LowerChar(s[i])]

\* s[p:] starts with pat (p is 1-based)
MatchAt(s, p, pat) ==
    /\ p >= 1
    /\ p + Len(pat) - 1 <= Len(s)
    /\ \A k \in 1..Len(pat) : s[p + k - 1] = pat[k]

StartsWith(s, pat) == MatchAt(s, 1, pat)
EndsWith(s, pat) == Len(pat) <= Len(s) /\ MatchAt(s, Len(s) - Len(pat) + 1, pat)

\* str.find(pat, from): the first position >= from where pat occurs, 0 when none
IndexFrom(s, pat, from) ==
    LET M == {i \in from..(Len(s) - Len(pat) + 1) : MatchAt(s, i, pat)}
    IN IF M = {} THEN 0 ELSE Min(M)

\* pat in s
Contains(s, pat) == IndexFrom(s, pat, 1) # 0

\* the first position >= p whose character is not in S (Len(s) + 1 when none)
RunEnd(s, p, S) ==
    LET M == {i \in p..Len(s) : s[i] \notin S}
    IN IF M = {} THEN Len(s) + 1 ELSE Min(M)

\* str.lstrip(), str.rstrip(), str.strip()
LStrip(s) == SubSeq(s, RunEnd(s, 1, Whitespace), Len(s))
RStrip(s) ==
    LET M == {i \in 1..Len(s) : s[i] \notin Whitespace}
    IN IF M = {} THEN <<>> ELSE SubSeq(s, 1, Max(M))
Strip(s) == LStrip(RStrip(s))

\* str.split(sep) for a non-empty separator
RECURSIVE Split(_, _)
Split(s, sep) ==
    LET i == IndexFrom(s, sep, 1)
    IN IF i = 0
       THEN <<s>>
       ELSE <<SubSeq(s, 1, i - 1)>> \o Split(SubSeq(s, i + Len(sep), Len(s)), sep)

\* sep.join(parts)
RECURSIVE Join(_, _)
Join(parts, sep) ==
    IF parts = <<>> THEN <<>>
    ELSE IF Len(parts) = 1 THEN parts[1]
    ELSE parts[1] \o sep \o Join(Tail(parts), sep)

\* str.replace(pat, rep) for a non-empty pat
Replace(s, pat, rep) == Join(Split(s, pat), rep)

\* len(str.split()): the number of maximal runs of non-whitespace characters
WordCount(s) ==
    Cardinality({i \in 1..Len(s) :
                   /\ s[i] \notin Whitespace
                   /\ (i = 1 \/ s[i - 1] \in Whitespace)})

\* the elements of s at the positions I, in order
AtPositions(s, I) ==
    [k \in 1..Cardinality(I) |->
       s[CHOOSE i \in I : Cardinality({j \in I : j <= i}) = k]]

\* the characters of s that are not in S, in order
Without(s, S) == AtPositions(s, {i \in 1..Len(s) : s[i] \notin S})

(***************************************************************************)
(* parse_article: the title (src/api.py 488-536 and 575-577).              *)
(***************************************************************************)
DefaultTitle == <<"F","l","a","s","h"," ","N","e","w","s",":"," ","T","o","p"," ","G","l","o","b","a","l"," ","E","v","e","n","t","s">>
MinTitleLen == 10
MaxTitleLen == 150
MinCleanTitleLen == 5
MaxTitleWords == 15
TitleScanLines == 5

NoMatch == [found |-> FALSE, group |-> <<>>]

\* the end of the line that holds position p: the position of the next "\n", or Len + 1
Eol(s, p) == RunEnd(s, p, {c \in Range(s) : c # NL})

\* re.match(r'#+\s+(.+)$', text[p:], re.MULTILINE) for a line start p: '#+' and
\* '\s+' are greedy; when the whitespace run reaches the end of the text, '\s+'
\* gives characters back until '.+' finds one that is not a newline.
HeadingAt(s, p) ==
    LET i == RunEnd(s, p, {"#"})
        j == RunEnd(s, i, Whitespace)
        K == {k \in (i + 1)..(j - 1) : s[k] # NL}
    IN IF i = p \/ j = i THEN NoMatch
       ELSE IF j <= Len(s)
            THEN [found |-> TRUE, group |-> SubSeq(s, j, Eol(s, j) - 1)]
       ELSE IF K # {}
            THEN [found |-> TRUE, group |-> SubSeq(s, Max(K), Eol(s, Max(K)) - 1)]
       ELSE NoMatch

\* re.search(r'^#+\s+(.+)$', article_text, re.MULTILINE): the leftmost match
HeadingSearch(s) ==
    LET starts == {1} \cup {i + 1 : i \in {k \in 1..Len(s) : s[k] = NL}}
        M == {p \in starts : p <= Len(s) /\ HeadingAt(s, p).found}
    IN IF M = {} THEN NoMatch ELSE HeadingAt(s, Min(M))

TitleLengthOk(t) == MinTitleLen <= Len(t) /\ Len(t) <= MaxTitleLen

\* Method 1: the first markdown heading
TitleMethod1(text) ==
    LET m == HeadingSearch(text)
        potential_title == Strip(m.group)
    IN IF m.found /\ TitleLengthOk(potential_title) THEN potential_title ELSE DefaultTitle

\* re.sub(r'^(Breaking News|News|Flash News|Update):\s*', '', line, flags=re.IGNORECASE)
NewsPrefixes == << <<"b","r","e","a","k","i","n","g"," ","n","e","w","s">>,
                   <<"n","e","w","s">>,
                   <<"f","l","a","s","h"," ","n","e","w","s">>,
                   <<"u","p","d","a","t","e">> >>
StripNewsPrefix(line) ==
    LET M == {k \in DOMAIN NewsPrefixes : StartsWith(Lower(line), NewsPrefixes[k] \o <<":">>)}
    IN IF M = {} THEN line
       ELSE SubSeq(line, RunEnd(line, Len(NewsPrefixes[Min(M)]) + 2, Whitespace), Len(line))

\* re.sub(r'^#+\s*', '', s)
StripHashes(s) ==
    LET i == RunEnd(s, 1, {"#"})
    IN IF i = 1 THEN s ELSE SubSeq(s, RunEnd(s, i, Whitespace), Len(s))

\* re.sub(r'\*+', '', s)
RemoveStars(s) == Without(s, {"*"})

\* re.sub(r'^["\']|["\']$', '', s) on a one-line string
Quotes == {"\"", "'"}
RemoveQuotes(s) ==
    LET a == IF Len(s) >= 1 /\ s[1] \in Quotes THEN 2 ELSE 1
        b == IF Len(s) >= 2 /\ s[Len(s)] \in Quotes THEN Len(s) - 1 ELSE Len(s)
    IN SubSeq(s, a, b)

\* Method 2: the first line, when the text has more than one line
TitleMethod2(text, title) ==
    IF title = DefaultTitle /\ Contains(text, <<NL>>)
    THEN LET first_line == Strip(StripHashes(StripNewsPrefix(Strip(Split(text, <<NL>>)[1]))))
         IN IF /\ TitleLengthOk(first_line)
               /\ ~EndsWith(first_line, <<".">>)
               /\ ~EndsWith(first_line, <<"!">>)
            THEN first_line
            ELSE title
    ELSE title

\* Method 3: the first of the first five lines that looks like a title
LooksLikeTitle(line) ==
    /\ line # <<>>
    /\ TitleLengthOk(line)
    /\ ~EndsWith(line, <<".">>)
    /\ ~EndsWith(line, <<",">>)
    /\ ~StartsWith(line, <<"h","t","t","p">>)
    /\ line[1] \in UpperLetters
    /\ WordCount(line) <= MaxTitleWords

TitleMethod3(text, title) ==
    IF title = DefaultTitle
    THEN LET all == Split(text, <<NL>>)
             lines == [i \in 1..(IF Len(all) < TitleScanLines THEN Len(all) ELSE TitleScanLines)
                         |-> Strip(all[i])]
             M == {i \in DOMAIN lines : LooksLikeTitle(lines[i])}
         IN IF M = {} THEN title ELSE lines[Min(M)]
    ELSE title

\* lines 527-534: clean the title, fall back to the default when it is too short
CleanTitle(title) ==
    LET t == Strip(RemoveQuotes(Strip(RemoveStars(Strip(StripHashes(title))))))
    IN IF Len(t) < MinCleanTitleLen THEN DefaultTitle ELSE t

\* lines 575-577: the markdown clean-up is applied once more, after the fallback
FinalTitle(title) == Strip(RemoveStars(Strip(StripHashes(title))))

parse_title(text) ==
    FinalTitle(CleanTitle(TitleMethod3(text, TitleMethod2(text, TitleMethod1(text)))))

(***************************************************************************)
(* parse_article: the sources (src/api.py 345-363).                        *)
(***************************************************************************)
SourcesTag == <<"S","o","u","r","c","e","s",":">>
SourceTag == <<"S","o","u","r","c","e",":">>
ImagesTag == <<"I","m","a","g","e","s",":">>
ImageTag == <<"I","m","a","g","e",":">>
Http == <<"h","t","t","p">>
Www == <<"w","w","w",".">>
Dash == <<" ","-"," ">>

Last(s) == s[Len(s)]

\* lines 347-349: the text after the last "Sources:", else after the last "Source:"
SourcesSection(text) ==
    LET a == IF Contains(text, SourcesTag) THEN Last(Split(text, SourcesTag)) ELSE <<>>
    IN IF a # <<>> THEN a
       ELSE IF Contains(text, SourceTag) THEN Last(Split(text, SourceTag)) ELSE <<>>

\* lines 352-363 for one line of the section: the sources it adds (none or one)
SourceOfLine(raw) ==
    LET line == Strip(raw)
    IN IF line # <<>> /\ (Contains(line, Http) \/ Contains(line, Www))
       THEN IF Contains(line, Dash)
            THEN LET i == IndexFrom(line, Dash, 1)
                 IN << [name |-> Strip(Replace(SubSeq(line, 1, i - 1), SourceTag, <<>>)),
                        url |-> Strip(SubSeq(line, i + Len(Dash), Len(line)))] >>
            ELSE IF Contains(line, Http)
            THEN LET url == Split(line, Http)[2]
                 IN << [name |-> <<"S","o","u","r","c","e">>,
                        url |-> IF StartsWith(url, Http) THEN url ELSE Http \o url] >>
            ELSE <<>>
       ELSE <<>>

RECURSIVE SourcesOfLines(_)
SourcesOfLines(lines) ==
    IF lines = <<>> THEN <<>>
    ELSE SourceOfLine(Head(lines)) \o SourcesOfLines(Tail(lines))

parse_sources(text) ==
    IF Contains(text, SourcesTag) \/ Contains(text, SourceTag)
    THEN SourcesOfLines(Split(SourcesSection(text), <<NL>>))
    ELSE <<>>

(***************************************************************************)
(* parse_article: the content (src/api.py 538-573).                        *)
(***************************************************************************)
\* lines 540-544
DropSources(text, sources) ==
    IF Contains(text, SourcesTag)
    THEN Strip(Split(text, SourcesTag)[1])
    ELSE IF Contains(text, SourceTag) /\ Len(sources) > 0
    THEN LET lines == Split(text, <<NL>>)
             keep == {i \in DOMAIN lines :
                        ~\E k \in DOMAIN sources : Contains(lines[i], sources[k].url)}
         IN Join(AtPositions(lines, keep), <<NL>>)
    ELSE text

\* lines 547-556
DropImagesSection(content) ==
    IF Contains(content, ImagesTag)
    THEN Strip(Split(content, ImagesTag)[1])
    ELSE IF Contains(content, ImageTag)
            /\ (Contains(content, SourcesTag) \/ Contains(content, SourceTag))
    THEN LET images_start == IndexFrom(content, ImageTag, 1)
             sources_start == IF Contains(content, SourcesTag)
                              THEN IndexFrom(content, SourcesTag, 1)
                              ELSE IndexFrom(content, SourceTag, 1)
         IN IF images_start < sources_start
            THEN Strip(SubSeq(content, 1, images_start - 1))
            ELSE content
    ELSE content

\* lines 559-560: for img_url in images: content = content.replace(img_url, '').strip()
RECURSIVE DropImageUrls(_, _)
DropImageUrls(content, images) ==
    IF images = <<>> THEN content
    ELSE DropImageUrls(Strip(Replace(content, Head(images), <<>>)), Tail(images))

\* line 565: re.sub(r'\n{3,}', '\n\n', content)
CollapseNewlines(s) ==
    AtPositions(s, {i \in 1..Len(s) :
                      ~(i >= 3 /\ s[i] = NL /\ s[i - 1] = NL /\ s[i - 2] = NL)})

\* lines 568-569
StripLines(s) ==
    LET lines == Split(s, <<NL>>)
    IN Join([i \in DOMAIN lines |-> Strip(lines[i])], <<NL>>)

\* lines 572-573
DropEmptyParagraphs(s) ==
    LET paragraphs == Split(s, <<NL, NL>>)
    IN Join(AtPositions(paragraphs, {i \in DOMAIN paragraphs : Strip(paragraphs[i]) # <<>>}),
            <<NL, NL>>)

parse_content(text, sources, images) ==
    DropEmptyParagraphs(StripLines(CollapseNewlines(
        DropImageUrls(DropImagesSection(DropSources(text, sources)), images))))

(***************************************************************************)
(* extract_topics (src/api.py 289-309).                                    *)
(***************************************************************************)
MaxTopics == 10
MinWordLen == 3

stop_words ==
    { <<"t","h","e">>, <<"a">>, <<"a","n">>, <<"a","n","d">>, <<"o","r">>, <<"b","u","t">>,
      <<"i","n">>, <<"o","n">>, <<"a","t">>, <<"t","o">>, <<"f","o","r">>, <<"o","f">>, <<"w","i","t","h">>,
      <<"b","y">>, <<"i","s">>, <<"a","r","e">>, <<"w","a","s">>, <<"w","e","r","e">>,
      <<"b","e","e","n">>, <<"b","e">>, <<"h","a","v","e">>, <<"h","a","s">>, <<"h","a","d">>,
      <<"d","o">>, <<"d","o","e","s">>, <<"d","i","d">>, <<"w","i","l","l">>, <<"w","o","u","l","d">>,
      <<"c","o","u","l","d">>, <<"s","h","o","u","l","d">>, <<"m","a","y">>, <<"m","i","g","h","t">>,
      <<"m","u","s","t">>, <<"c","a","n">>, <<"t","h","i","s">>, <<"t","h","a","t">>,
      <<"t","h","e","s","e">>, <<"t","h","o","s","e">>, <<"i">>, <<"y","o","u">>, <<"h","e">>,
      <<"s","h","e">>, <<"i","t">>, <<"w","e">>, <<"t","h","e","y">>, <<"w","h","a","t">>,
      <<"w","h","i","c","h">>, <<"w","h","o">>, <<"w","h","e","n">>, <<"w","h","e","r","e">>,
      <<"w","h","y">>, <<"h","o","w">> }

\* re.findall(r'\b[a-z]{3,}\b', text): the maximal runs of \w characters that are
\* made of at least three letters a-z
WordsOf(text) ==
    LET starts == {i \in 1..Len(text) :
                     /\ text[i] \in WordChars
                     /\ (i = 1 \/ text[i - 1] \notin WordChars)}
        run(i) == SubSeq(text, i, RunEnd(text, i, WordChars) - 1)
        good == {i \in starts : Len(run(i)) >= MinWordLen /\ Range(run(i)) \subseteq LowerLetters}
    IN [k \in 1..Cardinality(good) |->
          run(CHOOSE i \in good : Cardinality({j \in good : j <= i}) = k)]

\* Counter(words).most_common(10): by count, highest first; equal counts in the
\* order of first occurrence
MostCommon(words, n) ==
    LET D == Range(words)
        count(w) == Cardinality({i \in DOMAIN words : words[i] = w})
        first(w) == Min({i \in DOMAIN words : words[i] = w})
        before(v, w) == count(v) > count(w) \/ (count(v) = count(w) /\ first(v) < first(w))
        rank(w) == Cardinality({v \in D : before(v, w)}) + 1
    IN [k \in 1..(IF Cardinality(D) < n THEN Cardinality(D) ELSE n) |->
          CHOOSE w \in D : rank(w) = k]

extract_topics(title, content) ==
    LET text == Lower(title \o <<" ">> \o content)
        all == WordsOf(text)
        words == AtPositions(all, {i \in DOMAIN all : all[i] \notin stop_words})
    IN MostCommon(words, MaxTopics)

(***************************************************************************)
(* parse_article: the images (src/api.py 365-477).  The regular            *)
(* expressions are matched on the lower-cased text (re.IGNORECASE) and the *)
(* matches are cut from the text itself.                                   *)
(***************************************************************************)
\* the texts the image patterns are modelled for: no quote, and none of the JSON
\* field names of lines 371, 373, 376, 377 and 397, so that only the patterns of
\* lines 368-370, 372, 374 and 375 and the Images section can match
PlainText(text) ==
    /\ Range(text) \cap {"\"", "'"} = {}
    /\ ~Contains(Lower(text), <<"i","m","a","g","e","_","u","r","l">>)
    /\ ~Contains(Lower(text), <<"u","r","l","t","o","i","m","a","g","e">>)

\* the characters that end [^\s<>"\)]+
UrlStop == Whitespace \cup {"<", ">", "\"", ")"}
\* the first position >= p whose character is in S (Len(s) + 1 when none)
StopAt(s, p, S) ==
    LET M == {i \in p..Len(s) : s[i] \in S}
    IN IF M = {} THEN Len(s) + 1 ELSE Min(M)

\* https?:// at position p: the position after it, 0 when it is not there
SchemeEnd(low, p) ==
    IF MatchAt(low, p, <<"h","t","t","p","s",":","/","/">>) THEN p + 8
    ELSE IF MatchAt(low, p, <<"h","t","t","p",":","/","/">>) THEN p + 7
    ELSE 0

\* jpg|jpeg|png|gif|webp|svg|bmp, each after its period
Extensions ==
    {<<".","j","p","g">>, <<".","j","p","e","g">>, <<".","p","n","g">>, <<".","g","i","f">>,
     <<".","w","e","b","p">>, <<".","s","v","g">>, <<".","b","m","p">>}

\* the positions from..to at which one of pats occurs, ending at to at the latest
Occurrences(low, pats, from, to) ==
    {k \in from..to : \E pat \in pats : k + Len(pat) - 1 <= to /\ MatchAt(low, k, pat)}
\* the last position of the occurrence at k
OccurrenceEnd(low, pats, k, to) ==
    k - 1 + Len(CHOOSE pat \in pats : k + Len(pat) - 1 <= to /\ MatchAt(low, k, pat))

\* https?://[^\s<>"\)]+\.(?:exts)(?:\?[^\s<>"\)]*)? at p: the last position of the
\* match, 0 when there is none.  The greedy run gives characters back up to the
\* last extension in it.
ExtensionUrlEnd(low, p, exts) ==
    LET q == SchemeEnd(low, p)
        r == StopAt(low, q, UrlStop) - 1
        K == Occurrences(low, exts, q + 1, r)
        e == OccurrenceEnd(low, exts, Max(K), r)
    IN IF q = 0 \/ K = {} THEN 0
       ELSE IF e < r /\ low[e + 1] = "?" THEN r ELSE e

\* https?://[^\s<>"\)]+kw[^\s<>"\)]*(?:\.(?:exts))? at p: the whole run, when kw
\* occurs in it after at least one character
KeywordUrlEnd(low, p, kw) ==
    LET q == SchemeEnd(low, p)
        r == StopAt(low, q, UrlStop) - 1
    IN IF q # 0 /\ Occurrences(low, {kw}, q + 1, r) # {} THEN r ELSE 0

\* https?://[^\s<>"\)]+seg[^\s<>"\)]+ at p, for the path segments segs: the whole
\* run, when a segment occurs in it after a character and before another
SegmentUrlEnd(low, p, segs) ==
    LET q == SchemeEnd(low, p)
        r == StopAt(low, q, UrlStop) - 1
    IN IF q # 0 /\ Occurrences(low, segs, q + 1, r - 1) # {} THEN r ELSE 0

\* https?://[^\s<>"\)]+cdn[^\s<>"\)]+\.(?:exts) at p: up to the last extension of
\* the run, when 'cdn' and one more character come before it
CdnUrlEnd(low, p, exts) ==
    LET q == SchemeEnd(low, p)
        r == StopAt(low, q, UrlStop) - 1
        K == Occurrences(low, exts, q + 1, r)
    IN IF q # 0 /\ K # {} /\ Occurrences(low, {<<"c","d","n">>}, q + 1, Max(K) - 4) # {}
       THEN OccurrenceEnd(low, exts, Max(K), r) ELSE 0

\* image["']?\s*[:=]\s*["']?(https?://[^\s<>"\)]+) at p: where the group starts,
\* 0 when there is no match
ImageFieldUrl(low, p) ==
    LET a == RunEnd(low, p + 5, Whitespace)
        b == RunEnd(low, a + 1, Whitespace)
    IN IF /\ MatchAt(low, p, <<"i","m","a","g","e">>)
          /\ a <= Len(low)
          /\ low[a] \in {":", "="}
          /\ SchemeEnd(low, b) # 0
          /\ StopAt(low, SchemeEnd(low, b), UrlStop) > SchemeEnd(low, b)
       THEN b ELSE 0

\* re.findall: the matches from left to right, none overlapping another;
\* spans[p] is <<the first position of what a match at p returns (its group, or
\* all of it), the last position of the match>>, the latter 0 when there is none
FindAll(text, spans) ==
    LET scan[p \in 1..(Len(text) + 1)] ==
            IF \A k \in p..Len(text) : spans[k][2] = 0 THEN <<>>
            ELSE CHOOSE rest \in {<<SubSeq(text, spans[m][1], spans[m][2])>> \o scan[spans[m][2] + 1] :
                                    m \in {Min({k \in p..Len(text) : spans[k][2] # 0})}} : TRUE
    IN scan[1]

\* str.rstrip(chars), str.strip(chars)
RStripChars(s, S) ==
    LET M == {i \in 1..Len(s) : s[i] \notin S}
    IN IF M = {} THEN <<>> ELSE SubSeq(s, 1, Max(M))
StripChars(s, S) == RStripChars(SubSeq(s, RunEnd(s, 1, S), Len(s)), S)
\* s without its repetitions; the first sequence of seqs that is not empty; the
\* elements of s in which one of words occurs, in any case (any(w in
\* s.lower() for w in words))
Dedupe(s) == AtPositions(s, {i \in DOMAIN s : \A j \in 1..(i - 1) : s[j] # s[i]})
FirstNonEmpty(seqs) ==
    IF \A k \in DOMAIN seqs : seqs[k] = <<>> THEN <<>>
    ELSE seqs[Min({k \in DOMAIN seqs : seqs[k] # <<>>})]
WithWord(s, words) ==
    AtPositions(s, {i \in DOMAIN s : \E word \in words : Contains(Lower(s[i]), word)})
MinUrlLen == 10
MaxImages == 5

\* lines 367-383: the matches of the patterns, pattern after pattern
PatternMatches(text, low) ==
    FindAll(text, [p \in DOMAIN low |-> <<p, ExtensionUrlEnd(low, p, Extensions)>>])
    \o FindAll(text, [p \in DOMAIN low |-> <<p, KeywordUrlEnd(low, p, <<"i","m","a","g","e">>)>>])
    \o FindAll(text, [p \in DOMAIN low |-> <<p, KeywordUrlEnd(low, p, <<"p","h","o","t","o">>)>>])
    \o FindAll(text, [p \in DOMAIN low |->
                        <<ImageFieldUrl(low, p),
                          IF ImageFieldUrl(low, p) = 0 THEN 0
                          ELSE StopAt(low, ImageFieldUrl(low, p), UrlStop) - 1>>])
    \o FindAll(text, [p \in DOMAIN low |->
                        <<p, SegmentUrlEnd(low, p, {<<"/","i","m","a","g","e","/">>,
                                                    <<"/","i","m","a","g","e","s","/">>})>>])
    \o FindAll(text, [p \in DOMAIN low |->
                        <<p, SegmentUrlEnd(low, p, {<<"/","p","h","o","t","o","/">>,
                                                    <<"/","p","h","o","t","o","s","/">>})>>])

\* lines 384-392: a match is kept when, its quotes and punctuation stripped, it
\* starts with 'http' and looks like an image URL
PatternImages(matches) ==
    LET stripped == [k \in DOMAIN matches |-> StripChars(matches[k], {"\"", "'", ".", ",", ";"})]
    IN WithWord(AtPositions(stripped, {k \in DOMAIN matches : StartsWith(stripped[k], Http)}),
                {<<".","j","p","g">>, <<".","j","p","e","g">>, <<".","p","n","g">>,
                 <<".","g","i","f">>, <<".","w","e","b","p">>, <<".","s","v","g">>,
                 <<"/","i","m","a","g","e">>, <<"/","p","h","o","t","o">>,
                 <<"i","m","a","g","e">>, <<"p","h","o","t","o">>,
                 <<"i","m","g","u","r">>, <<"f","l","i","c","k","r">>,
                 <<"u","n","s","p","l","a","s","h">>, <<"p","e","x","e","l","s">>,
                 <<"g","e","t","t","y">>, <<"c","d","n">>, <<"m","e","d","i","a">>,
                 <<"s","t","a","t","i","c">>})

\* lines 421-437 for one line of the Images section: the URL it adds, <<>> when
\* it adds none
ImageOfLine(raw) ==
    LET stripped == Strip(raw)
        line == IF StartsWith(Lower(stripped), <<"i","m","a","g","e",":">>)
                THEN Strip(SubSeq(stripped, 7, Len(stripped)))
                ELSE stripped
        P == {p \in DOMAIN line :
                /\ SchemeEnd(line, p) # 0
                /\ StopAt(line, SchemeEnd(line, p), Whitespace \cup {"<", ">", "\""}) > SchemeEnd(line, p)}
        url == RStripChars(SubSeq(line, Min(P),
                                  StopAt(line, SchemeEnd(line, Min(P)),
                                         Whitespace \cup {"<", ">", "\""}) - 1),
                           {".", ",", ";", ")", "'", "\""})
    IN IF P # {} /\ StartsWith(url, Http) THEN url ELSE <<>>

\* lines 409-437: the URLs of the lines after the last 'Images:' (else after the
\* last 'Image:'), up to the sources
SectionImages(text) ==
    LET after == IF Contains(text, ImagesTag) /\ Last(Split(text, ImagesTag)) # <<>>
                 THEN Last(Split(text, ImagesTag))
                 ELSE IF Contains(text, ImageTag) THEN Last(Split(text, ImageTag))
                 ELSE <<>>
        lines == Split(IF Contains(after, SourcesTag) THEN Split(after, SourcesTag)[1]
                       ELSE IF Contains(after, SourceTag) THEN Split(after, SourceTag)[1]
                       ELSE after,
                       <<NL>>)
        urls == [k \in DOMAIN lines |-> ImageOfLine(lines[k])]
    IN AtPositions(urls, {k \in DOMAIN urls : urls[k] # <<>>})

\* line 457, and lines 131, 166 and 679 after their strip()
CleanUrl(url) == RStripChars(url, {".", ",", ";", ")", "'", "\"", "<", ">"})

\* lines 440-475: the images once each, those kept that start with 'http', have
\* ten characters or more and, cleaned, hold no invalid word and look like an
\* image URL
ValidImages(images) ==
    LET cleaned == [k \in DOMAIN images |-> CleanUrl(images[k])]
    IN WithWord(AtPositions(cleaned,
                            {k \in DOMAIN images :
                               /\ \A j \in 1..(k - 1) : images[j] # images[k]
                               /\ StartsWith(images[k], Http)
                               /\ Len(images[k]) >= MinUrlLen
                               /\ WithWord(<<cleaned[k]>>,
                                           {<<"p","l","a","c","e","h","o","l","d","e","r">>,
                                            <<"d","e","f","a","u","l","t">>, <<"n","o","n","e">>,
                                            <<"n","u","l","l">>,
                                            <<"u","n","d","e","f","i","n","e","d">>}) = <<>>}),
                Extensions \cup
                {<<".","j","f","i","f">>,
                 <<"/","i","m","a","g","e">>, <<"/","p","h","o","t","o">>, <<"/","i","m","g">>,
                 <<"/","p","i","c","t","u","r","e">>, <<"/","m","e","d","i","a">>,
                 <<"i","m","g","u","r">>, <<"f","l","i","c","k","r">>,
                 <<"u","n","s","p","l","a","s","h">>, <<"p","e","x","e","l","s">>,
                 <<"g","e","t","t","y">>, <<"c","d","n">>, <<"m","e","d","i","a">>,
                 <<"s","t","a","t","i","c">>, <<"c","l","o","u","d","i","n","a","r","y">>,
                 <<"i","m","a","g","e","s",".","u","n","s","p","l","a","s","h">>})

\* lines 365-477, and the images[:5] of line 590
parse_images(text) ==
    CHOOSE images \in
        {SubSeq(validated, 1, Min({MaxImages, Len(validated)})) :
           validated \in {ValidImages(PatternImages(PatternMatches(text, Lower(text)))
                                      \o SectionImages(text))}} : TRUE

\* lines 674-680 and 161-168: the matches that start with 'http', cleaned, longer
\* than ten characters, each once
CleanMatches(matches) ==
    LET cleaned == [k \in DOMAIN matches |-> CleanUrl(Strip(matches[k]))]
    IN Dedupe(AtPositions(cleaned, {k \in DOMAIN matches :
                                      StartsWith(matches[k], Http) /\ Len(cleaned[k]) > MinUrlLen}))

\* lines 663-684: what the seven patterns of generate_article_task find in
\* full_text, a match being kept when it has an extension or a keyword
TaskImages(text, low) ==
    WithWord(
        CleanMatches(
            FindAll(text, [p \in DOMAIN low |->
                             <<p, ExtensionUrlEnd(low, p, Extensions \cup {<<".","j","f","i","f">>})>>])
            \o FindAll(text, [p \in DOMAIN low |-> <<p, KeywordUrlEnd(low, p, <<"i","m","a","g","e">>)>>])
            \o FindAll(text, [p \in DOMAIN low |->
                                <<p, SegmentUrlEnd(low, p, {<<"/","i","m","a","g","e","/">>,
                                                            <<"/","i","m","a","g","e","s","/">>})>>])
            \o FindAll(text, [p \in DOMAIN low |->
                                <<p, SegmentUrlEnd(low, p, {<<"/","p","h","o","t","o","/">>,
                                                            <<"/","p","h","o","t","o","s","/">>})>>])
            \o FindAll(text, [p \in DOMAIN low |->
                                <<p, SegmentUrlEnd(low, p, {<<"/","m","e","d","i","a","/">>})>>])
            \o FindAll(text, [p \in DOMAIN low |->
                                <<p, SegmentUrlEnd(low, p, {<<"/","i","m","g","/">>})>>])
            \o FindAll(text, [p \in DOMAIN low |->
                                <<p, CdnUrlEnd(low, p, Extensions \ {<<".","s","v","g">>, <<".","b","m","p">>})>>])),
        Extensions \cup
        {<<"/","i","m","a","g","e">>, <<"/","p","h","o","t","o">>,
         <<"/","i","m","g">>, <<"/","p","i","c","t","u","r","e">>,
         <<"/","m","e","d","i","a">>, <<"c","d","n">>,
         <<"s","t","a","t","i","c">>})

\* lines 152-171 of save_article: the matches of the first of the four patterns
\* that has an acceptable one
FallbackImages(text, low) ==
    FirstNonEmpty(
        <<CleanMatches(FindAll(text, [p \in DOMAIN low |-> <<p, ExtensionUrlEnd(low, p, Extensions)>>])),
          CleanMatches(FindAll(text, [p \in DOMAIN low |->
                                        <<p, KeywordUrlEnd(low, p, <<"i","m","a","g","e">>)>>])),
          CleanMatches(FindAll(text, [p \in DOMAIN low |->
                                        <<p, SegmentUrlEnd(low, p, {<<"/","i","m","a","g","e","/">>,
                                                                    <<"/","i","m","a","g","e","s","/">>})>>])),
          CleanMatches(FindAll(text, [p \in DOMAIN low |->
                                        <<p, SegmentUrlEnd(low, p, {<<"/","p","h","o","t","o","/">>,
                                                                    <<"/","p","h","o","t","o","s","/">>})>>]))>>)

(***************************************************************************)
(* The answers of the LLM pipeline.                                        *)
(***************************************************************************)
\* What crew.kickoff() may return: three short articles, the first two sharing
\* most of their keywords, the third with a first line of markdown characters
\* only; or (SpecImages) three articles of which two end with an 'Image:' line.
TextOilGold == <<"O","i","l"," ","g","a","s"," ","g","o","l","d","\n","b","a","n","k">>
TextOilBank == <<"O","i","l"," ","g","a","s"," ","b","a","n","k","\n","j","o","b","s">>
TextStars == <<"*","#","#","#","#","#","#","#","#","#","\n","q","u","a","k","e">>
TextImage == <<"O","i","l"," ","g","a","s"," ","b","a","n","k","\n","j","o","b","s","\n","I","m","a","g","e",":"," ","h","t","t","p","s",":","/","/","x",".","c","o","m","/","a",".","p","n","g">>
TextImageNone == <<"O","i","l"," ","g","a","s"," ","g","o","l","d","\n","b","a","n","k","\n","I","m","a","g","e",":"," ","h","t","t","p","s",":","/","/","x",".","c","o","m","/","n","o","n","e","_","(","1",")",".","j","p","g">>
LLMOutputs == {TextOilGold, TextOilBank, TextStars}
ImageOutputs == {TextOilGold, TextImage, TextImageNone}

\* What the two searches of full_text find in the answers of the LLM pipeline
\* (computed once; for another text they are computed on the spot)
OutputImages ==
    [text \in LLMOutputs \cup ImageOutputs |-> [task |-> TaskImages(text, Lower(text)),
                              save |-> FallbackImages(text, Lower(text))]]

\* lines 648-692 of generate_article_task: when the parser found no image, the
\* images found in full_text, if any
ensure_image(images, full_text) ==
    IF images = <<>> /\ full_text # <<>>
    THEN FirstNonEmpty(<<IF full_text \in DOMAIN OutputImages
                         THEN OutputImages[full_text].task
                         ELSE TaskImages(full_text, Lower(full_text)),
                         images>>)
    ELSE images

\* lines 120-171 of save_article: the images that are written, those of the
\* article that are valid or else those found in full_text
saved_images(images, full_text) ==
    LET cleaned == [k \in DOMAIN images |-> CleanUrl(Strip(images[k]))]
    IN FirstNonEmpty(
           <<WithWord(AtPositions(cleaned, {k \in DOMAIN images :
                                              StartsWith(cleaned[k], Http) /\ Len(cleaned[k]) > MinUrlLen}),
                      Extensions \cup
                      {<<"/","i","m","a","g","e">>, <<"/","p","h","o","t","o">>, <<"/","i","m","g">>,
                       <<"/","p","i","c","t","u","r","e">>, <<"/","m","e","d","i","a">>,
                       <<"i","m","g","u","r">>, <<"f","l","i","c","k","r">>,
                       <<"u","n","s","p","l","a","s","h">>, <<"p","e","x","e","l","s">>,
                       <<"g","e","t","t","y">>, <<"c","d","n">>, <<"m","e","d","i","a">>,
                       <<"s","t","a","t","i","c">>, <<"c","l","o","u","d","i","n","a","r","y">>}),
             IF full_text = <<>> THEN <<>>
             ELSE IF full_text \in DOMAIN OutputImages THEN OutputImages[full_text].save
             ELSE FallbackImages(full_text, Lower(full_text))>>)

(***************************************************************************)
(* parse_article as a whole (src/api.py 338-593).                          *)
(***************************************************************************)
parse_article(text) ==
    CHOOSE parsed \in
        UNION {{[title |-> title,
                 content |-> content,
                 sources |-> sources,
                 images |-> images,
                 topics |-> extract_topics(title, content),
                 full_text |-> text] :
                  content \in {parse_content(text, sources, images)}} :
               sources \in {parse_sources(text)},
               images \in {parse_images(text)},
               title \in {parse_title(text)}} : TRUE

(***************************************************************************)
(* The clock as the code writes it, and the reference to an earlier        *)
(* article.  The clock is read in whole seconds, counted from 00:00:00 of  *)
(* the day the process started, written 2026-01-01.                        *)
(***************************************************************************)
TwoDigits(n) == <<DigitSeq[((n \div 10) % 10) + 1], DigitSeq[(n % 10) + 1]>>

\* datetime.now().strftime("%Y%m%d%H%M%S")
article_id(t) ==
    <<"2","0","2","6","0","1">> \o TwoDigits(1 + t \div 86400)
        \o TwoDigits((t \div 3600) % 24) \o TwoDigits((t \div 60) % 60) \o TwoDigits(t % 60)

\* created_at[:10], the date of datetime.now().isoformat(); a row keeps created_at
\* as the clock reading itself
IsoDate(created_at) ==
    <<"2","0","2","6","-","0","1","-">> \o TwoDigits(1 + created_at \div 86400)

\* line 643
RelatedOpen == <<"\n","\n","[","R","e","l","a","t","e","d"," ","A","r","t","i","c","l","e",":"," ","T","h","i","s"," ","a","r","t","i","c","l","e"," ","r","e","l","a","t","e","s"," ","t","o"," ","a"," ","p","r","e","v","i","o","u","s"," ","a","r","t","i","c","l","e"," ","p","u","b","l","i","s","h","e","d"," ","o","n"," ">>
reference_text(prev_article) ==
    RelatedOpen \o IsoDate(prev_article.created_at) \o <<":"," ","'">>
        \o prev_article.title \o <<"'","]">>

(***************************************************************************)
(* The parsed answers, and the topics of what the runs store.              *)
(***************************************************************************)
\* set(extract_topics(title, content))
TopicSet(title, content) == Range(extract_topics(title, content))

\* parse_article(crew.kickoff())
ParsedOutputs == {parse_article(result) : result \in LLMOutputs \cup ImageOutputs}

\* The title and content of the articles the runs can store: a parsed answer, as
\* it is or followed by the reference to another one.
StorableTexts ==
    UNION {{<<p.title, p.content>> : p \in parsed}
             \cup {<<p.title, p.content \o reference_text([title |-> q.title,
                                                           created_at |-> 0])>> :
                     p \in parsed, q \in parsed} :
           parsed \in {ParsedOutputs}}

\* set(extract_topics(title, content)); the sets of the StorableTexts are computed
\* once and looked up
StoredTopicSet == [tc \in StorableTexts |-> TopicSet(tc[1], tc[2])]
topics_of(title, content) ==
    CHOOSE topics \in {IF <<title, content>> \in DOMAIN stored
                          THEN stored[<<title, content>>]
                          ELSE TopicSet(title, content) : stored \in {StoredTopicSet}} : TRUE

(***************************************************************************)
(* find_similar_articles (src/api.py 311-336).  A similarity is the        *)
(* fraction intersection / union, kept as numerator and denominator: the   *)
(* float division is correctly rounded, so two quotients of small integers *)
(* compare as the fractions do.                                            *)
(***************************************************************************)
FracGE(a, b) == a.num * b.den >= b.num * a.den
FracGT(a, b) == a.num * b.den > b.num * a.den
FracEQ(a, b) == a.num * b.den = b.num * a.den

\* lines 323-325
Jaccard(N, E) == [num |-> Cardinality(N \cap E), den |-> Cardinality(N \cup E)]

\* IsSimilar with > in the place of >= on line 327
IsSimilarStrict(N, E, similarity_threshold) ==
    /\ Cardinality(N) > 0
    /\ Cardinality(E) > 0
    /\ Cardinality(N \cap E) * similarity_threshold.den
           > similarity_threshold.num * Cardinality(N \cup E)

\* lines 322 and 327
IsSimilar(N, E, similarity_threshold) ==
    /\ Cardinality(N) > 0
    /\ Cardinality(E) > 0
    /\ FracGE(Jaccard(N, E), similarity_threshold)

\* a sort by similarity that turns equal entries around
SortBySimilarityReversed(similar) ==
    LET rank(i) == 1 + Cardinality({j \in DOMAIN similar :
                        \/ FracGT(similar[j].similarity, similar[i].similarity)
                        \/ (FracEQ(similar[j].similarity, similar[i].similarity) /\ j > i)})
    IN [k \in DOMAIN similar |-> similar[CHOOSE i \in DOMAIN similar : rank(i) = k]]

\* line 335: list.sort(key=similarity, reverse=True), a stable sort
SortBySimilarity(similar) ==
    LET rank(i) == 1 + Cardinality({j \in DOMAIN similar :
                        \/ FracGT(similar[j].similarity, similar[i].similarity)
                        \/ (FracEQ(similar[j].similarity, similar[i].similarity) /\ j < i)})
    IN [k \in DOMAIN similar |-> similar[CHOOSE i \in DOMAIN similar : rank(i) = k]]

\* lines 319-333: one turn of the loop, the entry appended for article
similar_entry(new_topics, article, existing_topics, similarity_threshold) ==
    IF IsSimilar(new_topics, existing_topics, similarity_threshold)
    THEN <<[article |-> article,
            similarity |-> Jaccard(new_topics, existing_topics),
            common_topics |-> new_topics \cap existing_topics]>>
    ELSE <<>>

\* lines 317-333: the loop over existing_articles
RECURSIVE similar_entries(_, _, _)
similar_entries(new_topics, existing_articles, similarity_threshold) ==
    IF existing_articles = <<>> THEN <<>>
    ELSE similar_entry(new_topics, Head(existing_articles),
                       topics_of(Head(existing_articles).title,
                                 Head(existing_articles).content),
                       similarity_threshold)
         \o similar_entries(new_topics, Tail(existing_articles), similarity_threshold)

find_similar_articles(new_title, new_content, existing_articles, similarity_threshold) ==
    SortBySimilarity(similar_entries(topics_of(new_title, new_content),
                                     existing_articles, similarity_threshold))

(***************************************************************************)
(* One server process: the scheduler thread, the start-up generation and   *)
(* the handler of POST /api/generate-article, over the articles table.     *)
(***************************************************************************)
SchedulerSleepSeconds == 18000
DocumentedSleepSeconds == 1800
InitialDelaySeconds == 5
MaxRuns == 3

Threads == {"sched", "init", "post"}
TaskThreads == {"sched", "init"}

\* line 615 and line 751: similarity_threshold=0.4; line 629: similarity_score >= 0.7
SimilarThreshold == [num |-> 4, den |-> 10]
DuplicateThreshold == [num |-> 7, den |-> 10]

VARIABLES
    crew,       \* the texts crew.kickoff() may return
    mode,       \* "wsgi": wsgi.py imported by a Gunicorn worker; "main": api.py run as
                \* __main__ with the initial generation
    now,        \* the clock, in seconds
    store,      \* the articles table: id -> row
    pc,         \* where each thread is
    existing,   \* each run's existing_articles
    article,    \* each run's article_data, once it is built
    response,   \* the last answer of POST /api/generate-article, status 0 before
    wake_at,    \* the time at which a sleeping thread may go on
    runs,       \* generation runs started
    parse_in,   \* the argument of parse_article (SpecParse)
    parse_out,  \* <<>>, or the one-element sequence of its result
    sim_in,     \* the arguments of find_similar_articles (SpecSim)
    sim_out,    \* <<>>, or the one-element sequence of its result
    get_in,     \* a GET request: its route and article_id (SpecGet)
    get_out,    \* <<>>, or the one-element sequence of its answer
    topics_in,  \* the arguments of extract_topics (SpecTopics)
    topics_out  \* <<>>, or the one-element sequence of its result

pureVars == <<parse_in, parse_out, sim_in, sim_out, get_in, get_out, topics_in, topics_out>>
vars == <<crew, mode, now, store, pc, existing, article, response, wake_at, runs,
          parse_in, parse_out, sim_in, sim_out, get_in, get_out, topics_in, topics_out>>

NoArticle ==
    [id |-> <<>>, created_at |-> 0, title |-> <<>>, content |-> <<>>, sources |-> <<>>,
     images |-> <<>>, topics |-> <<>>, full_text |-> <<>>, related_articles |-> <<>>]
NoSimInput ==
    [new_title |-> <<>>, new_content |-> <<>>, existing_articles |-> <<>>,
     similarity_threshold |-> [num |-> 0, den |-> 1]]
NoRequest == [route |-> "", article_id |-> <<>>]
NoTopicsInput == [title |-> <<>>, content |-> <<>>]
NoResponse == [status |-> 0, success |-> FALSE, article |-> NoArticle]

\* load_articles: the rows with an id and a title, newest first
Loadable(row) == row.id # <<>> /\ row.title # <<>>
LoadOrders(s) ==
    LET ids == {i \in DOMAIN s : Loadable(s[i])}
        n == Cardinality(ids)
        orders == {f \in [1..n -> ids] :
                     /\ \A a, b \in 1..n : a # b => f[a] # f[b]
                     /\ \A a, b \in 1..n : a < b => s[f[a]].created_at >= s[f[b]].created_at}
    IN {[k \in 1..n |-> s[f[k]]] : f \in orders}

\* lines 634-639
prev_reference(most_similar) ==
    [id |-> most_similar.article.id,
     title |-> most_similar.article.title,
     created_at |-> most_similar.article.created_at,
     similarity |-> most_similar.similarity]

\* lines 618-623: the similar article the new one refers to
most_similar_of(similar_articles) == similar_articles[1]

\* with_related keeping a back-reference to every similar article
with_related_all(article_data, similar_articles) ==
    IF similar_articles # <<>>
    THEN [article_data EXCEPT
            !.related_articles = [k \in DOMAIN similar_articles |->
                                    prev_reference(similar_articles[k])],
            !.content = @ \o reference_text(similar_articles[1].article)]
    ELSE [article_data EXCEPT !.related_articles = <<>>]

\* lines 619-647
with_related(article_data, similar_articles) ==
    IF similar_articles # <<>>
    THEN LET most_similar == most_similar_of(similar_articles)
         IN [article_data EXCEPT
               !.related_articles = <<prev_reference(most_similar)>>,
               !.content = @ \o reference_text(most_similar.article)]
    ELSE [article_data EXCEPT !.related_articles = <<>>]

\* lines 606-647: article_data of a run whose result parse_article turned into
\* parsed, at time t
new_article(parsed, existing_articles, t) ==
    LET article_data ==
            [id |-> article_id(t), created_at |-> t,
             title |-> parsed.title, content |-> parsed.content,
             sources |-> parsed.sources, images |-> parsed.images,
             topics |-> parsed.topics, full_text |-> parsed.full_text,
             related_articles |-> <<>>]
        similar_articles ==
            find_similar_articles(article_data.title, article_data.content,
                                  existing_articles, SimilarThreshold)
    IN with_related(article_data, similar_articles)

\* article_data at the end of a run of thread t: generate_article_task (lines
\* 648-692) looks for an image again when the parser found none, generate_article
\* (lines 733-774) does not
article_of(t, article_data) ==
    IF t \in TaskThreads
    THEN [article_data EXCEPT !.images = ensure_image(@, article_data.full_text)]
    ELSE article_data

\* saves_article dropping the article the warning of lines 628-631 is about
saves_unless_duplicate(article_data) ==
    \/ article_data.related_articles = <<>>
    \/ ~FracGE(article_data.related_articles[1].similarity, DuplicateThreshold)

\* lines 628-631: a very high similarity is reported and the run goes on to save
saves_article(article_data) == TRUE

\* an insert that keeps the row the table already has under the id
insert_if_absent(s, row) ==
    [i \in DOMAIN s \cup {row.id} |-> IF i \in DOMAIN s THEN s[i] ELSE row]

\* save_article, lines 120-197: the row, and the upsert by id
supabase_data(a) ==
    [id |-> a.id, title |-> a.title, content |-> a.content, full_text |-> a.full_text,
     created_at |-> a.created_at, sources |-> a.sources,
     images |-> saved_images(a.images, a.full_text),
     topics |-> a.topics, related_articles |-> a.related_articles]
upsert(s, row) ==
    [i \in DOMAIN s \cup {row.id} |-> IF i = row.id THEN row ELSE s[i]]

\* delete_old_articles keeping the newest rows only
delete_all_but_newest(s) ==
    [i \in {j \in DOMAIN s : \A k \in DOMAIN s : s[k].created_at <= s[j].created_at} |-> s[i]]

\* delete_old_articles, lines 215-218
delete_old_articles(s) == s

\* the variables of the server, before anything ran
ServerStarts ==
    /\ now = 0
    /\ store = <<>>
    /\ existing = [t \in Threads |-> <<>>]
    /\ article = [t \in Threads |-> NoArticle]
    /\ response = NoResponse
    /\ wake_at = [t \in Threads |-> IF t = "init" THEN InitialDelaySeconds ELSE 0]
    /\ runs = 0

\* the server starts, the LLM pipeline answering with one of outputs
ServerInit(outputs) ==
    /\ \A text \in outputs : PlainText(text)
    /\ crew = outputs
    /\ mode \in {"wsgi", "main"}
    /\ ServerStarts
    /\ pc = [t \in Threads |->
               IF t = "sched" THEN "call"
               ELSE IF t = "post" THEN "idle"
               ELSE IF mode = "wsgi" THEN "sleeping"
               ELSE "call"]
    /\ parse_in = <<>>
    /\ parse_out = <<>>
    /\ sim_in = NoSimInput
    /\ sim_out = <<>>
    /\ get_in = NoRequest
    /\ get_out = <<>>
    /\ topics_in = NoTopicsInput
    /\ topics_out = <<>>
Init == ServerInit(LLMOutputs)

\* existing_articles = load_articles(): the rows, or [] when the read fails
LoadStep(t) ==
    /\ runs < MaxRuns
    /\ runs' = runs + 1
    /\ \E loaded \in LoadOrders(store) \cup {<<>>} :
          existing' = [existing EXCEPT ![t] = loaded]
    /\ pc' = [pc EXCEPT ![t] = "loaded"]
    /\ UNCHANGED <<mode, now, store, article, response, wake_at>>
    /\ UNCHANGED <<crew, pureVars>>

\* a handler answering 200 with the article whatever happened
generate_article_ok(status, article_data) ==
    [status |-> 200, success |-> TRUE, article |-> article_data]

\* the answer of generate_article, lines 776-796: the article with 200, an error
\* with 500
generate_article(status, article_data) ==
    [status |-> status, success |-> status = 200,
     article |-> IF status = 200 THEN article_data ELSE NoArticle]

\* a scheduler_worker that returns when a run has failed
FinishOrStop(t, status) ==
    /\ pc' = [pc EXCEPT ![t] = IF t = "sched" /\ status = 200 THEN "sleeping"
                                ELSE IF t \in TaskThreads THEN "done" ELSE "idle"]
    /\ wake_at' = IF t = "sched"
                  THEN [wake_at EXCEPT ![t] = now + SchedulerSleepSeconds]
                  ELSE wake_at
    /\ response' = IF t = "post" THEN generate_article(status, article[t]) ELSE response
    /\ existing' = [existing EXCEPT ![t] = <<>>]
    /\ article' = [article EXCEPT ![t] = NoArticle]
    /\ UNCHANGED <<mode, now, runs>>
    /\ UNCHANGED <<crew, pureVars>>

\* the end of a run: scheduler_worker goes to sleep, the start-up generation is
\* over, the handler answers with status
Finish(t, status) ==
    /\ pc' = [pc EXCEPT ![t] = IF t = "sched" THEN "sleeping"
                                ELSE IF t = "init" THEN "done" ELSE "idle"]
    /\ wake_at' = IF t = "sched"
                  THEN [wake_at EXCEPT ![t] = now + SchedulerSleepSeconds]
                  ELSE wake_at
    /\ response' = IF t = "post" THEN generate_article(status, article[t]) ELSE response
    /\ existing' = [existing EXCEPT ![t] = <<>>]
    /\ article' = [article EXCEPT ![t] = NoArticle]
    /\ UNCHANGED <<mode, now, runs>>
    /\ UNCHANGED <<crew, pureVars>>

\* crew.kickoff() returns; the result is parsed, stamped with the clock and compared
\* with existing_articles.  The clock moves when a sleep ends (Wake): runs that
\* overlap finish within the same second.
GenerateStep(t) ==
    /\ pc[t] = "loaded"
    /\ \E parsed \in ParsedOutputs :
          /\ parsed.full_text \in crew
          /\ article' = [article EXCEPT ![t] =
                          article_of(t, new_article(parsed, existing[t], now))]
    /\ pc' = [pc EXCEPT ![t] = "ready"]
    /\ UNCHANGED <<mode, now, store, existing, response, wake_at, runs>>
    /\ UNCHANGED <<crew, pureVars>>

\* crew.kickoff() or parse_article raises
RaiseStep(t) ==
    /\ pc[t] = "loaded"
    /\ store' = store
    /\ Finish(t, 500)

\* save_article(article_data) returns True
SaveStep(t) ==
    /\ pc[t] = "ready"
    /\ store' = IF saves_article(article[t])
                THEN upsert(store, supabase_data(article[t]))
                ELSE store
    /\ Finish(t, 200)

\* save_article(article_data) returns False: the upsert raised or returned no data
SaveFailsStep(t) ==
    /\ pc[t] = "ready"
    /\ store' = store
    /\ Finish(t, 500)

\* generate_article_task, called by scheduler_worker and by the start-up generation
TaskLoad(t) == t \in TaskThreads /\ pc[t] = "call" /\ LoadStep(t)
TaskGenerate(t) == t \in TaskThreads /\ GenerateStep(t)
TaskRaises(t) == t \in TaskThreads /\ RaiseStep(t)
TaskSave(t) == t \in TaskThreads /\ SaveStep(t)
TaskSaveFails(t) == t \in TaskThreads /\ SaveFailsStep(t)

\* time.sleep returns: scheduler_worker's time.sleep(18000), wsgi.py's time.sleep(5)
Wake(t) ==
    /\ t \in TaskThreads
    /\ pc[t] = "sleeping"
    /\ runs < MaxRuns
    /\ now' = IF now < wake_at[t] THEN wake_at[t] ELSE now
    /\ pc' = [pc EXCEPT ![t] = "call"]
    /\ UNCHANGED <<mode, store, existing, article, response, wake_at, runs>>
    /\ UNCHANGED <<crew, pureVars>>

\* POST /api/generate-article (generate_article); under api.py's app.run the server
\* starts once the initial generation has returned
PostLoad ==
    /\ pc["post"] = "idle"
    /\ mode = "main" => pc["init"] = "done"
    /\ LoadStep("post")
PostGenerate == GenerateStep("post")
PostRaises == RaiseStep("post")
PostSave == SaveStep("post")
PostSaveFails == SaveFailsStep("post")

\* a call of delete_old_articles()
DeleteOldArticles ==
    /\ store' = delete_old_articles(store)
    /\ UNCHANGED <<mode, now, pc, existing, article, response, wake_at, runs>>
    /\ UNCHANGED <<crew, pureVars>>

Next ==
    \/ \E t \in Threads : TaskLoad(t)
    \/ \E t \in Threads : TaskGenerate(t)
    \/ \E t \in Threads : TaskRaises(t)
    \/ \E t \in Threads : TaskSave(t)
    \/ \E t \in Threads : TaskSaveFails(t)
    \/ \E t \in Threads : Wake(t)
    \/ PostLoad
    \/ PostGenerate
    \/ PostRaises
    \/ PostSave
    \/ PostSaveFails
    \/ DeleteOldArticles

Spec == Init /\ [][Next]_vars
\* the same server, the LLM pipeline supplying images
SpecImages == ServerInit(ImageOutputs) /\ [][Next]_vars

\* scheduler_worker, lines 716-731: a step of its thread.  Under SpecLive the
\* thread is given processor time, crew.kickoff() returns or raises and time.sleep
\* returns; the LLM pipeline answers with an article or with a text without title
SchedulerWorker ==
    \/ TaskLoad("sched")
    \/ TaskGenerate("sched")
    \/ TaskRaises("sched")
    \/ TaskSave("sched")
    \/ TaskSaveFails("sched")
    \/ Wake("sched")
SpecLive == ServerInit({TextOilGold, TextStars}) /\ [][Next]_vars /\ WF_vars(SchedulerWorker)

(***************************************************************************)
(* parse_article on its own: SpecParse applies it to one text.             *)
(***************************************************************************)
MaxBodyLines == 2

\* first lines: too short, markdown characters only, a quoted run of hashes, a news
\* prefix, a heading, ending punctuation, bold, empty, a plain headline, no capital,
\* and one longer than MaxTitleLen
LongLine == [i \in 1..(MaxTitleLen + 1) |-> "A"]
FirstLines ==
    {LongLine} \cup
    {<<"S","h","o","r","t">>,
     <<"*","#","#","#","#","#","#","#","#","#">>,
     <<"\"","#","#","#","#","#","#","#","#","a","b">>,
     <<"N","e","w","s",":"," ","F","l","o","o","d","s"," ","h","i","t"," ","c","o","a","s","t">>,
     <<"#"," ","S","t","o","r","m"," ","w","a","r","n","i","n","g"," ","i","s","s","u","e","d">>,
     <<"M","a","r","k","e","t","s"," ","r","a","l","l","y"," ","a","g","a","i","n"," ","t","o","d","a","y","!">>,
     <<"M","a","r","k","e","t","s"," ","r","a","l","l","y"," ","a","g","a","i","n"," ","t","o","d","a","y",".">>,
     <<"M","a","r","k","e","t","s"," ","r","a","l","l","y"," ","a","g","a","i","n"," ","t","o","d","a","y",",">>,
     <<"*","*","B","o","l","d"," ","h","e","a","d","l","i","n","e"," ","h","e","r","e","*","*">>,
     <<>>,
     <<"G","l","o","b","a","l"," ","M","a","r","k","e","t","s"," ","R","a","l","l","y"," ","T","o","d","a","y">>,
     <<"g","l","o","b","a","l"," ","m","a","r","k","e","t","s"," ","r","a","l","l","y"," ","t","o","d","a","y">>}
\* the lines after it: empty, a sentence, a heading, a short heading, a line that
\* looks like a title
BodyLines ==
    {<<>>,
     <<"b","o","d","y"," ","t","e","x","t"," ","h","e","r","e",".">>,
     <<"#","#"," ","M","a","r","k","e","t"," ","O","v","e","r","v","i","e","w"," ","T","o","d","a","y">>,
     <<"#"," ","x">>,
     <<"Q","u","a","k","e"," ","s","t","r","i","k","e","s"," ","n","o","r","t","h"," ","c","o","a","s","t">>}
Bodies == UNION {[1..n -> BodyLines] : n \in 0..MaxBodyLines}
ParseInputs == {Join(<<first>> \o body, <<NL>>) : first \in FirstLines, body \in Bodies}

\* the server's variables while a function is examined on its own
ServerOff ==
    /\ crew = {}
    /\ mode = "off"
    /\ now = 0
    /\ store = <<>>
    /\ pc = [t \in Threads |-> "off"]
    /\ existing = [t \in Threads |-> <<>>]
    /\ article = [t \in Threads |-> NoArticle]
    /\ response = NoResponse
    /\ wake_at = [t \in Threads |-> 0]
    /\ runs = 0
serverVars == <<crew, mode, now, store, pc, existing, article, response, wake_at, runs>>

InitParse ==
    /\ ServerOff
    /\ parse_in \in ParseInputs
    /\ PlainText(parse_in)
    /\ parse_out = <<>>
    /\ sim_in = NoSimInput
    /\ sim_out = <<>>
    /\ get_in = NoRequest
    /\ get_out = <<>>
    /\ topics_in = NoTopicsInput
    /\ topics_out = <<>>

\* article_data = parse_article(result)
ParseStep ==
    /\ parse_out = <<>>
    /\ parse_out' = <<parse_article(parse_in)>>
    /\ UNCHANGED <<parse_in, sim_in, sim_out, get_in, get_out, topics_in, topics_out>>
    /\ UNCHANGED serverVars

NextParse == ParseStep
SpecParse == InitParse /\ [][NextParse]_vars

(***************************************************************************)
(* extract_topics on its own: SpecTopics applies it to a title and a       *)
(* content.                                                                *)
(***************************************************************************)
\* titles and contents: words next to digits and underscores, stop words, short
\* words, capitals, punctuation, and more than ten keywords
TopicTitles ==
    {<<>>,
     <<"O","i","l">>,
     <<"T","h","e"," ","o","i","l">>,
     <<"c","o","v","i","d","1","9">>,
     <<"G","a","s"," ","g","a","s">>,
     <<"o","i","l","_","g","a","s">>}
TopicContents ==
    {<<>>,
     <<"o","i","l"," ","g","a","s"," ","o","i","l">>,
     <<"c","o","v","i","d","1","9"," ","c","o","v","i","d","1","9"," ","o","i","l">>,
     <<"o","i","l"," ","o","i","l","1"," ","g","a","s"," ","g","a","s">>,
     <<"t","o"," ","b","e"," ","o","r"," ","n","o","t">>,
     <<"a","a","a"," ","b","b","b"," ","c","c","c"," ","d","d","d"," ","e","e","e"," ","f","f","f"," ","g","g","g"," ","h","h","h"," ","i","i","i"," ","j","j","j"," ","k","k","k"," ","k","k","k">>,
     <<"a","a","a"," ","b","b","b"," ","c","c","c"," ","d","d","d"," ","e","e","e"," ","f","f","f"," ","g","g","g"," ","h","h","h"," ","i","i","i"," ","j","j","j"," ","k","k","k">>,
     <<"G","a","s"," ","G","A","S"," ","t","h","e"," ","a","n","d"," ","g","o">>,
     <<"g","a","s",","," ","o","i","l","."," ","g","a","s","-","o","i","l">>}

InitTopics ==
    /\ ServerOff
    /\ parse_in = <<>>
    /\ parse_out = <<>>
    /\ sim_in = NoSimInput
    /\ sim_out = <<>>
    /\ get_in = NoRequest
    /\ get_out = <<>>
    /\ topics_in \in [title : TopicTitles, content : TopicContents]
    /\ topics_out = <<>>

\* topics = extract_topics(title, content)
TopicsStep ==
    /\ topics_out = <<>>
    /\ topics_out' = <<extract_topics(topics_in.title, topics_in.content)>>
    /\ UNCHANGED <<parse_in, parse_out, sim_in, sim_out, get_in, get_out, topics_in>>
    /\ UNCHANGED serverVars

NextTopics == TopicsStep
SpecTopics == InitTopics /\ [][NextTopics]_vars

(***************************************************************************)
(* find_similar_articles on its own: SpecSim applies it to a new article,  *)
(* a list of existing ones and a threshold.                                *)
(***************************************************************************)
MaxExisting == 2

\* title and content of the articles compared; the third has no topic
SimTexts ==
    {<<<<"O","i","l"," ","g","a","s"," ","g","o","l","d">>, <<"O","i","l"," ","g","a","s"," ","g","o","l","d","\n","b","a","n","k">>>>,
     <<<<"O","i","l"," ","g","a","s"," ","b","a","n","k">>, <<"O","i","l"," ","g","a","s"," ","b","a","n","k","\n","j","o","b","s">>>>,
     <<<<>>, <<"t","o"," ","b","e"," ","o","r">>>>,
     <<<<"G","o","l","d"," ","b","a","n","k">>, <<"o","i","l">>>>,
     <<<<"J","o","b","s"," ","j","o","b","s">>, <<"g","a","s"," ","q","u","a","k","e"," ","o","i","l"," ","g","o","l","d">>>>}
\* the default of line 311, the threshold of the callers, the duplicate level and 1
SimThresholds == {[num |-> 3, den |-> 10], SimilarThreshold, DuplicateThreshold,
                  [num |-> 1, den |-> 1]}
SimArticles == {[title |-> d[1], content |-> d[2]] : d \in SimTexts}
SimInputs ==
    {[new_title |-> d[1], new_content |-> d[2], existing_articles |-> e,
      similarity_threshold |-> th] :
        d \in SimTexts,
        e \in UNION {[1..n -> SimArticles] : n \in 0..MaxExisting},
        th \in SimThresholds}

InitSim ==
    /\ ServerOff
    /\ parse_in = <<>>
    /\ parse_out = <<>>
    /\ sim_in \in SimInputs
    /\ sim_out = <<>>
    /\ get_in = NoRequest
    /\ get_out = <<>>
    /\ topics_in = NoTopicsInput
    /\ topics_out = <<>>

\* similar_articles = find_similar_articles(title, content, existing_articles, threshold)
SimStep ==
    /\ sim_out = <<>>
    /\ sim_out' = <<find_similar_articles(sim_in.new_title, sim_in.new_content,
                                          sim_in.existing_articles,
                                          sim_in.similarity_threshold)>>
    /\ UNCHANGED <<parse_in, parse_out, sim_in, get_in, get_out, topics_in, topics_out>>
    /\ UNCHANGED serverVars

NextSim == SimStep
SpecSim == InitSim /\ [][NextSim]_vars

(***************************************************************************)
(* The GET routes (src/api.py 798-855), each on its own: a table, a        *)
(* request, and the answer.                                                *)
(***************************************************************************)
\* lines 799-811, 814-834 and 837-855, articles being what load_articles returned
get_articles(articles) == [status |-> 200, success |-> TRUE, articles |-> articles]
get_article(articles, id) ==
    IF \E k \in DOMAIN articles : articles[k].id = id
    THEN [status |-> 200, success |-> TRUE,
          article |-> articles[Min({k \in DOMAIN articles : articles[k].id = id})]]
    ELSE [status |-> 404, success |-> FALSE, message |-> "Article not found"]
get_latest_article(articles) ==
    IF articles # <<>>
    THEN [status |-> 200, success |-> TRUE, article |-> articles[1]]
    ELSE [status |-> 404, success |-> FALSE, message |-> "No articles found yet."]

\* The tables the requests are answered from: for each of three moments, no row
\* or the row a run that loaded nothing wrote at that moment
GetTimes == {0, InitialDelaySeconds, SchedulerSleepSeconds}
GetStores ==
    {[id \in {article_id(at) : at \in DOMAIN wrote} |->
        CHOOSE row \in {supabase_data(new_article(wrote[at], <<>>, at)) : at \in DOMAIN wrote} :
           row.id = id] :
       wrote \in UNION {[times -> ParsedOutputs] : times \in SUBSET GetTimes}}

InitGet ==
    /\ crew = {}
    /\ mode = "off"
    /\ now = SchedulerSleepSeconds
    /\ store \in GetStores
    /\ pc = [t \in Threads |-> "off"]
    /\ existing = [t \in Threads |-> <<>>]
    /\ article = [t \in Threads |-> NoArticle]
    /\ response = NoResponse
    /\ wake_at = [t \in Threads |-> 0]
    /\ runs = 0
    /\ parse_in = <<>>
    /\ parse_out = <<>>
    /\ sim_in = NoSimInput
    /\ sim_out = <<>>
    /\ get_in \in [route : {"articles", "article", "latest"},
                    article_id : {article_id(at) : at \in GetTimes}]
    /\ get_out = <<>>
    /\ topics_in = NoTopicsInput
    /\ topics_out = <<>>

\* the request is answered: articles = load_articles(), the rows or [] when the
\* read fails, and the handler of the route
GetStep ==
    /\ get_out = <<>>
    /\ \E articles \in LoadOrders(store) \cup {<<>>} :
          get_out' = <<CASE get_in.route = "articles" -> get_articles(articles)
                         [] get_in.route = "article" -> get_article(articles, get_in.article_id)
                         [] get_in.route = "latest" -> get_latest_article(articles)>>
    /\ UNCHANGED <<parse_in, parse_out, sim_in, sim_out, get_in, topics_in, topics_out>>
    /\ UNCHANGED serverVars

NextGet == GetStep
SpecGet == InitGet /\ [][NextGet]_vars

(***************************************************************************)
(* Properties of the server process.                                       *)
(***************************************************************************)
\* the topic sets find_similar_articles compares: those of the new article, and
\* those of a loaded one, taken from its title and stored content
NewTopics(a) == Range(a.topics)
LoadedTopics(e) == topics_of(e.title, e.content)
SimilarTo(a, e) == IsSimilar(NewTopics(a), LoadedTopics(e), SimilarThreshold)
DuplicateOf(a, e) == IsSimilar(NewTopics(a), LoadedTopics(e), DuplicateThreshold)
\* thread t has built its article and is about to save it
Built(t) == pc[t] = "ready"
\* thread t is inside a generation run
InRun(t) == pc[t] \in {"loaded", "ready"}

\* C1: articles are never deleted: whatever step is taken (a step of a scheduled
\* run, of the start-up generation, of POST /api/generate-article, a call of
\* delete_old_articles), every id in the store before it is in the store after it.
C1_NeverDeleted == [][\A i \in DOMAIN store : i \in DOMAIN store']_vars

\* C1 witness: three runs are over, one of them the handler's, and the store
\* holds several articles
C1_Witness ==
    /\ runs = MaxRuns
    /\ \A t \in Threads : ~InRun(t)
    /\ response.status = 200
    /\ Cardinality(DOMAIN store) >= 2

\* C2: ids are unique: a run that saves successfully adds a new row, its id is not
\* the id of an article another run stored.
C2_SaveAddsRow == [][\A t \in Threads : SaveStep(t) => article[t].id \notin DOMAIN store]_vars

\* C3 as claimed: a run whose new article is a duplicate (similarity >= 0.7) of a
\* loaded article does not persist it: its save step adds no row.
C3_DuplicateNotPersisted ==
    [][\A t \in Threads :
         (SaveStep(t) /\ \E i \in DOMAIN existing[t] : DuplicateOf(article[t], existing[t][i]))
            => DOMAIN store' = DOMAIN store]_vars

\* C3 as amended: a run whose new article is a duplicate (similarity >= 0.7) of a
\* loaded article persists it all the same: after its save step the store holds the
\* article under its id, with one back-reference of similarity >= 0.7.
C3_DuplicatePersisted ==
    [][\A t \in Threads :
         (SaveStep(t) /\ \E i \in DOMAIN existing[t] : DuplicateOf(article[t], existing[t][i]))
            => /\ article[t].id \in DOMAIN store'
               /\ store'[article[t].id] = supabase_data(article[t])
               /\ Len(article[t].related_articles) = 1
               /\ FracGE(article[t].related_articles[1].similarity, DuplicateThreshold)]_vars

\* C3 witness: the store holds an article saved with a back-reference of
\* similarity >= 0.7
C3_Witness ==
    \E i \in DOMAIN store :
        /\ store[i].related_articles # <<>>
        /\ FracGE(store[i].related_articles[1].similarity, DuplicateThreshold)

\* C4: at most one thread executes generate_article_task at any moment.
C4_OneTaskThread == Cardinality({t \in TaskThreads : InRun(t)}) <= 1

\* C5: when an attempt of scheduler_worker is over, the scheduler waits 30 minutes
\* (1800 seconds): its sleep ends 1800 seconds after it began.
C5_WaitsThirtyMinutes ==
    [][(pc["sched"] # "sleeping" /\ pc'["sched"] = "sleeping")
          => wake_at'["sched"] = now' + DocumentedSleepSeconds]_vars

\* C7: the article a run has built has no back-reference, and no reference text, when
\* no loaded article has topic similarity >= 0.4 to it; otherwise it has exactly one
\* back-reference, with the id, title and created_at of one similar loaded article
\* and that article's similarity, and its content ends with the reference text
\* naming that article.
C7_OneBackReference ==
    \A t \in Threads : Built(t) =>
        IF \A i \in DOMAIN existing[t] : ~SimilarTo(article[t], existing[t][i])
        THEN /\ article[t].related_articles = <<>>
             /\ ~Contains(article[t].content, RelatedOpen)
        ELSE /\ Len(article[t].related_articles) = 1
             /\ \E i \in DOMAIN existing[t] :
                   /\ SimilarTo(article[t], existing[t][i])
                   /\ article[t].related_articles[1].id = existing[t][i].id
                   /\ article[t].related_articles[1].title = existing[t][i].title
                   /\ article[t].related_articles[1].created_at = existing[t][i].created_at
                   /\ FracEQ(article[t].related_articles[1].similarity,
                             Jaccard(NewTopics(article[t]), LoadedTopics(existing[t][i])))
                   /\ EndsWith(article[t].content, reference_text(existing[t][i]))

\* C7 witness: a run has built an article with one back-reference, two of the
\* articles it loaded being similar to it
C7_Witness ==
    \E t \in Threads :
        /\ Built(t)
        /\ Len(article[t].related_articles) = 1
        /\ \E i, j \in DOMAIN existing[t] :
              i # j /\ SimilarTo(article[t], existing[t][i]) /\ SimilarTo(article[t], existing[t][j])

\* C8: when several loaded articles are similar to the new one, the back-reference
\* points to the most recent of them: none of them has a greater created_at.
C8_MostRecentReferenced ==
    \A t \in Threads : (Built(t) /\ article[t].related_articles # <<>>) =>
        \A i \in DOMAIN existing[t] :
            SimilarTo(article[t], existing[t][i])
                => existing[t][i].created_at <= article[t].related_articles[1].created_at

(***************************************************************************)
(* Properties of find_similar_articles (SpecSim).                          *)
(***************************************************************************)
\* the topic sets of the new article and of the i-th existing one
SimN == TopicSet(sim_in.new_title, sim_in.new_content)
SimE(i) == TopicSet(sim_in.existing_articles[i].title, sim_in.existing_articles[i].content)
\* the i-th existing article is to be returned: both sets non-empty and
\* |N \cap E| / |N \cup E| >= similarity_threshold
Qualifies(i) ==
    /\ SimN # {}
    /\ SimE(i) # {}
    /\ Cardinality(SimN \cap SimE(i)) * sim_in.similarity_threshold.den
          >= sim_in.similarity_threshold.num * Cardinality(SimN \cup SimE(i))
\* entry describes the i-th existing article: the article, its similarity, a value
\* in (0, 1], and the common topics
Describes(entry, i) ==
    /\ entry.article = sim_in.existing_articles[i]
    /\ entry.similarity.num * Cardinality(SimN \cup SimE(i))
          = Cardinality(SimN \cap SimE(i)) * entry.similarity.den
    /\ 0 < entry.similarity.num
    /\ entry.similarity.num <= entry.similarity.den
    /\ entry.common_topics = SimN \cap SimE(i)

\* C6: find_similar_articles returns exactly the existing articles whose topic set
\* and the new article's are both non-empty with |N \cap E| / |N \cup E| >=
\* similarity_threshold: one entry for each such article and no other, each with
\* that quotient, a value in (0, 1], as similarity and N \cap E as common_topics.
C6_ExactlyTheSimilar ==
    sim_out # <<>> =>
        \E f \in [DOMAIN sim_out[1] -> {i \in DOMAIN sim_in.existing_articles : Qualifies(i)}] :
            /\ \A i \in DOMAIN sim_in.existing_articles : Qualifies(i) =>
                  \E k \in DOMAIN f : f[k] = i
            /\ \A k, l \in DOMAIN f : k # l => f[k] # f[l]
            /\ \A k \in DOMAIN f : Describes(sim_out[1][k], f[k])

\* C6 witness: of two existing articles, one is returned, with a similarity equal to
\* the threshold, and the other is not
C6_Witness ==
    /\ sim_out # <<>>
    /\ Len(sim_in.existing_articles) = 2
    /\ Len(sim_out[1]) = 1
    /\ FracEQ(sim_out[1][1].similarity, sim_in.similarity_threshold)

(***************************************************************************)
(* Properties of parse_article (SpecParse).                                *)
(***************************************************************************)
\* C9: parse_article never returns an empty title: the title it returns has at
\* least 5 characters.
C9_TitleAtLeastFive == parse_out # <<>> => Len(parse_out[1].title) >= MinCleanTitleLen

\* the first line of a text, and the format write_task asks for: the text has a
\* first line of 10 to 100 characters, a headline of plain words, not ending with a
\* period, an exclamation mark or a question mark, with no blank around it, and a
\* body after it
MinHeadline == 10
MaxHeadline == 100
FirstLineOf(text) == Split(text, <<NL>>)[1]
FollowsFormat(text) ==
    /\ Contains(text, <<NL>>)
    /\ Len(FirstLineOf(text)) >= MinHeadline
    /\ Len(FirstLineOf(text)) <= MaxHeadline
    /\ Strip(FirstLineOf(text)) = FirstLineOf(text)
    /\ Range(FirstLineOf(text)) \subseteq WordChars \cup {" "}
    /\ Last(FirstLineOf(text)) \notin {".", "!", "?"}

\* C10: when the text follows the format asked of the writer, parse_article returns
\* its first line as the title, whatever comes after the first line.
C10_FirstLineIsTitle ==
    (parse_out # <<>> /\ FollowsFormat(parse_in))
        => parse_out[1].title = FirstLineOf(parse_in)


(***************************************************************************)
(* The images of the stored articles.                                      *)
(***************************************************************************)
\* an 'Image: <url>' line whose url starts with http:// or https:// and ends in
\* one of the five image file extensions
IsImageLine(line) ==
    /\ StartsWith(line, ImageTag \o <<" ">>)
    /\ \E url \in {SubSeq(line, Len(ImageTag) + 2, Len(line))} :
          /\ SchemeEnd(url, 1) # 0
          /\ Range(url) \cap Whitespace = {}
          /\ \E ext \in Extensions \ {<<".","s","v","g">>, <<".","b","m","p">>} :
                EndsWith(url, ext)
SuppliesImage(text) == \E line \in Range(Split(text, <<NL>>)) : IsImageLine(line)

\* C11: every stored article whose LLM output has an 'Image: <url>' line with an
\* http(s) url ending in .jpg, .jpeg, .png, .gif or .webp has a non-empty images
\* list, whether generate_article_task or POST /api/generate-article stored it
C11_ImageEnsured ==
    \A id \in DOMAIN store :
        SuppliesImage(store[id].full_text) => store[id].images # <<>>

(***************************************************************************)
(* Properties of the GET routes (SpecGet).                                 *)
(***************************************************************************)
\* the request of get_in was answered, on route
Answered(route) == get_out # <<>> /\ get_in.route = route

\* C12: GET /api/article answers 200 with a stored article of greatest created_at
\* whenever the table holds an article, and 404 'No articles found yet.' only
\* when it holds none.
C12_LatestArticle ==
    Answered("latest") =>
        /\ DOMAIN store # {} =>
              /\ get_out[1].status = 200
              /\ \E i \in DOMAIN store :
                    /\ get_out[1].article = store[i]
                    /\ \A j \in DOMAIN store : store[j].created_at <= store[i].created_at
        /\ get_out[1].status = 404 =>
              /\ DOMAIN store = {}
              /\ get_out[1].message = "No articles found yet."

\* C13: GET /api/articles lists every article of the table exactly once, in
\* non-increasing order of created_at.
C13_AllArticlesNewestFirst ==
    Answered("articles") =>
        /\ get_out[1].status = 200
        /\ Len(get_out[1].articles) = Cardinality(DOMAIN store)
        /\ Range(get_out[1].articles) = {store[i] : i \in DOMAIN store}
        /\ \A k, l \in DOMAIN get_out[1].articles :
              k < l => get_out[1].articles[k].created_at >= get_out[1].articles[l].created_at

\* C14: GET /api/article/<article_id> answers 200 with the article of that id when
\* the table holds one, 404 'Article not found' when it holds none, and never an
\* article of another id.
C14_ArticleById ==
    Answered("article") =>
        /\ get_in.article_id \in DOMAIN store =>
              /\ get_out[1].status = 200
              /\ get_out[1].article = store[get_in.article_id]
        /\ get_in.article_id \notin DOMAIN store =>
              /\ get_out[1].status = 404
              /\ get_out[1].message = "Article not found"
        /\ get_out[1].status = 200 => get_out[1].article.id = get_in.article_id

-----------------------------------------------------------------------------
\* Properties of POST /api/generate-article

\* the handler answers in this step
Answers == pc["post"] # "idle" /\ pc'["post"] = "idle"

\* C15: POST /api/generate-article answers 200 with success=true and the article
\* exactly when save_article returned True; it answers 500 with success=false when
\* crew.kickoff() or parse_article raised and when save_article returned False; a
\* 500 for a raised exception leaves the store as it was
C15_PostAnswers ==
    [][/\ Answers => response'.status \in {200, 500}
       /\ (Answers /\ response'.status = 200) <=> PostSave
       /\ PostSave =>
             /\ response'.success
             /\ response'.article = article["post"]
             /\ store' = upsert(store, supabase_data(article["post"]))
       /\ (PostRaises \/ PostSaveFails) =>
             /\ response'.status = 500
             /\ ~response'.success
             /\ response'.article = NoArticle
       /\ (Answers /\ pc["post"] = "loaded") => response'.status = 500 /\ store' = store]_vars

\* C15 witness: the handler has answered 200 with an article that the store
\* holds, after an earlier run had stored another one
C15_Witness ==
    /\ pc["post"] = "idle"
    /\ response.status = 200
    /\ response.success
    /\ response.article.id \in DOMAIN store
    /\ Cardinality(DOMAIN store) >= 2


-----------------------------------------------------------------------------
\* Properties of scheduler_worker (SpecLive)

\* scheduler_worker is inside its loop of lines 719-731
SchedulerRuns == pc["sched"] \in {"call", "loaded", "ready", "sleeping"}

\* C16: the scheduler continues running even if one generation fails: whatever
\* happens inside a generation cycle, scheduler_worker does not terminate, every
\* cycle ends, and after every cycle another generation cycle eventually starts
\* (for as long as the model lets runs start: runs < MaxRuns)
C16_SchedulerContinues ==
    /\ []SchedulerRuns
    /\ InRun("sched") ~> pc["sched"] = "sleeping"
    /\ (pc["sched"] = "sleeping" /\ runs < MaxRuns)
          ~> (pc["sched"] = "loaded" \/ runs = MaxRuns)

\* C16 witness: the scheduler has started another cycle after a cycle that stored
\* nothing
C16_Witness ==
    /\ pc["sched"] = "loaded"
    /\ wake_at["sched"] > 0
    /\ store = <<>>


-----------------------------------------------------------------------------
\* Properties of extract_topics (SpecTopics)

\* the runs of letters a-z of text: where they start, and the run starting at i
LetterRunStarts(text) ==
    {i \in 1..Len(text) : text[i] \in LowerLetters /\ (i = 1 \/ text[i - 1] \notin LowerLetters)}
LetterRunAt(text, i) == SubSeq(text, i, RunEnd(text, i, LowerLetters) - 1)
\* where the run w occurs in text
KeywordStarts(text, w) == {i \in LetterRunStarts(text) : LetterRunAt(text, i) = w}
\* a run of at least three letters that occurs in text and is not a stop word
IsKeyword(text, w) ==
    /\ Len(w) >= MinWordLen
    /\ w \notin stop_words
    /\ KeywordStarts(text, w) # {}

\* C17: extract_topics(title, content) returns at most 10 pairwise distinct
\* keywords, each a lowercase run of at least 3 letters a-z that occurs in
\* title + ' ' + content and is not a stop word, ordered by non-increasing
\* occurrence count, ties in the order of first occurrence; no omitted keyword
\* occurs more often than a returned one
C17_TopKeywords ==
    topics_out # <<>> =>
        LET text == Lower(topics_in.title \o <<" ">> \o topics_in.content)
            out == topics_out[1]
            count(w) == Cardinality(KeywordStarts(text, w))
            first(w) == Min(KeywordStarts(text, w))
            omitted == {w \in {LetterRunAt(text, i) : i \in LetterRunStarts(text)} :
                          IsKeyword(text, w) /\ w \notin Range(out)}
        IN /\ Len(out) <= MaxTopics
           /\ \A i, j \in DOMAIN out : i < j => out[i] # out[j]
           /\ \A i \in DOMAIN out : IsKeyword(text, out[i])
           /\ \A i, j \in DOMAIN out :
                 i < j => \/ count(out[i]) > count(out[j])
                          \/ count(out[i]) = count(out[j]) /\ first(out[i]) < first(out[j])
           /\ \A w \in omitted : \A i \in DOMAIN out : count(w) <= count(out[i])


-----------------------------------------------------------------------------
\* The order of find_similar_articles' result (SpecSim)

\* a has a higher similarity than b, the same similarity as b
Higher(a, b) == a.similarity.num * b.similarity.den > b.similarity.num * a.similarity.den
Level(a, b) == a.similarity.num * b.similarity.den = b.similarity.num * a.similarity.den

\* C18: find_similar_articles returns its matches sorted by non-increasing
\* similarity, matches with equal similarity keeping the order of
\* existing_articles, and it leaves existing_articles and every article in it
\* unchanged
C18_SortedStableUnchanged ==
    [][SimStep =>
          LET out == sim_out'[1]
              given == sim_in.existing_articles
          IN /\ sim_in'.existing_articles = given
             /\ \A k, l \in DOMAIN out : k < l => Higher(out[k], out[l]) \/ Level(out[k], out[l])
             /\ \E f \in [DOMAIN out -> DOMAIN given] :
                   /\ \A k \in DOMAIN out : out[k].article = given[f[k]] /\ Qualifies(f[k])
                   /\ \A k, l \in DOMAIN out : k # l => f[k] # f[l]
                   /\ \A k, l \in DOMAIN out :
                         k < l /\ Level(out[k], out[l]) => f[k] < f[l]]_vars

\* C18 witness: two different articles were returned with the same similarity
C18_Witness ==
    /\ sim_out # <<>>
    /\ Len(sim_out[1]) >= 2
    /\ \E k, l \in DOMAIN sim_out[1] :
          /\ k < l
          /\ Level(sim_out[1][k], sim_out[1][l])
          /\ sim_out[1][k].article # sim_out[1][l].article


-----------------------------------------------------------------------------
\* Properties of save_article

\* C19: saving is an upsert by id: saving an article whose id is already in the
\* store replaces that one row and leaves the number of rows and all other rows
\* unchanged, and saving the same article twice leaves the store as after the
\* first save
C19_UpsertById ==
    [][\A t \in Threads : SaveStep(t) =>
          LET row == supabase_data(article[t])
          IN /\ row.id = article[t].id
             /\ store'[row.id] = row
             /\ \A i \in DOMAIN store : i # row.id => i \in DOMAIN store' /\ store'[i] = store[i]
             /\ row.id \in DOMAIN store =>
                   /\ DOMAIN store' = DOMAIN store
                   /\ Cardinality(DOMAIN store') = Cardinality(DOMAIN store)
             /\ upsert(store', row) = store']_vars

\* C19 witness: a row refers to its own id as its related article: it was built
\* from a table that held a row with this id and has taken that row's place
C19_Witness ==
    \E i \in DOMAIN store :
        /\ store[i].related_articles # <<>>
        /\ store[i].related_articles[1].id = i

=============================================================================
